---- MODULE Spec2Model ----
(***************************************************************************)
(* RISKOFF backend: the risk engine (services/risk_engine.py) and the      *)
(* admin router's risk analysis and category derivation (routers/admin.py).*)
(*                                                                         *)
(* Python floats are modelled by exact rationals [num, den] with den > 0;  *)
(* a float division by zero is the ZeroDivisionError Python raises. A      *)
(* comparison or rounding that falls exactly on a threshold or a tie is    *)
(* decided on the exact value.                                             *)
(* Amounts are whole currency units; an EMI rounded by round(x, 2) is a    *)
(* whole number of hundredths.                                             *)
(***************************************************************************)
EXTENDS Integers, Sequences, FiniteSets, TLC

VARIABLES
    op,        \* the function or endpoint being called
    request,   \* its arguments
    response,  \* what it returned (or raised); NoResponse before the call
    pc,        \* "call" before the call ran, "return" after
    env,       \* the deployment: Supabase client present, ZUDU_SECRET_KEY
    loans      \* the rows of table "loans", oldest first; a row's id is
               \* its position

vars == <<op, request, response, pc, env, loans>>

(***************************************************************************)
(* Bounds of the explored inputs.                                          *)
(***************************************************************************)
MaxTenure == 2
MaxAmount == 6
MaxIncome == 12
MaxExpenses == 12
MaxExistingEmi == 2

(***************************************************************************)
(* Rational arithmetic standing for float arithmetic.                      *)
(***************************************************************************)
Rat(n, d) == IF d < 0 THEN [num |-> -n, den |-> -d] ELSE [num |-> n, den |-> d]

RatGt(x, a, b) == x.num * b > a * x.den      \* x > a/b, for b > 0
RatEq(x, y) == x.num * y.den = y.num * x.den

Abs(i) == IF i < 0 THEN -i ELSE i

RECURSIVE Gcd(_, _)
Gcd(a, b) == IF b = 0 THEN Abs(a) ELSE Gcd(b, a % Abs(b))

RECURSIVE Pow(_, _)
Pow(b, n) == IF n <= 0 THEN 1 ELSE b * Pow(b, n - 1)

\* round(num/den, 0) for den > 0, ties to even as Python's round.
RoundHalfEven(num, den) ==
    LET q == num \div den
        r == num % den
    IN  IF 2 * r < den THEN q
        ELSE IF 2 * r > den THEN q + 1
        ELSE IF q % 2 = 0 THEN q ELSE q + 1

\* (1 + rn/rd) ** n as the pair <<fn, fd>> = fn/fd; a negative n inverts
\* (fd = 0 then stands for 0.0 ** negative, which raises).
Factor(rn, rd, n) ==
    IF n >= 0 THEN <<Pow(rd + rn, n), Pow(rd, n)>>
              ELSE <<Pow(rd, -n), Pow(rd + rn, -n)>>

(***************************************************************************)
(* services/risk_engine.py: calculate_emi.                                 *)
(* annual_rate is a whole percentage. The result is [raised, value]:       *)
(* raised is the ZeroDivisionError of factor - 1 = 0.                      *)
(***************************************************************************)
EmiValue(v) == [raised |-> FALSE, value |-> v]
EmiRaised == [raised |-> TRUE, value |-> Rat(0, 1)]

\* lines 26-36: the amortizing branch, principal * r * f / (f - 1) with
\* r = annual_rate / 12 / 100 = rn/rd in lowest terms and f = fn/fd, which
\* is principal * rn * fn / (rd * (fn - fd)); round(emi, 2) in hundredths.
emi_formula_missing_factor(principal, tenure_months, annual_rate) ==
    LET g == Gcd(annual_rate, 1200)
        rn == annual_rate \div g
        rd == 1200 \div g
        f == Factor(rn, rd, tenure_months)
        fn == f[1]
        fd == f[2]
        h == Gcd(100 * rn, rd)
        top == principal * fd * ((100 * rn) \div h)
        bot == (rd \div h) * (fn - fd)
    IN  IF annual_rate = 0 THEN
            IF tenure_months = 0 THEN EmiRaised
            ELSE EmiValue(Rat(principal, tenure_months))
        ELSE IF fd = 0 THEN EmiRaised            \* 0.0 ** negative
        ELSE IF bot = 0 THEN EmiRaised           \* factor - 1 = 0
        ELSE IF bot < 0 THEN EmiValue(Rat(RoundHalfEven(-top, -bot), 100))
        ELSE EmiValue(Rat(RoundHalfEven(top, bot), 100))

emi_formula_rounds_zero_rate(principal, tenure_months, annual_rate) ==
    LET g == Gcd(annual_rate, 1200)
        rn == annual_rate \div g
        rd == 1200 \div g
        f == Factor(rn, rd, tenure_months)
        fn == f[1]
        fd == f[2]
        h == Gcd(100 * rn, rd)
        top == principal * fn * ((100 * rn) \div h)
        bot == (rd \div h) * (fn - fd)
    IN  IF annual_rate = 0 THEN
            IF tenure_months = 0 THEN EmiRaised
            ELSE EmiValue(Rat(RoundHalfEven(100 * principal, tenure_months), 100))
        ELSE IF fd = 0 THEN EmiRaised            \* 0.0 ** negative
        ELSE IF bot = 0 THEN EmiRaised           \* factor - 1 = 0
        ELSE IF bot < 0 THEN EmiValue(Rat(RoundHalfEven(-top, -bot), 100))
        ELSE EmiValue(Rat(RoundHalfEven(top, bot), 100))

emi_formula(principal, tenure_months, annual_rate) ==
    LET g == Gcd(annual_rate, 1200)
        rn == annual_rate \div g
        rd == 1200 \div g
        f == Factor(rn, rd, tenure_months)
        fn == f[1]
        fd == f[2]
        h == Gcd(100 * rn, rd)
        top == principal * fn * ((100 * rn) \div h)
        bot == (rd \div h) * (fn - fd)
    IN  IF annual_rate = 0 THEN
            IF tenure_months = 0 THEN EmiRaised
            ELSE EmiValue(Rat(principal, tenure_months))
        ELSE IF fd = 0 THEN EmiRaised            \* 0.0 ** negative
        ELSE IF bot = 0 THEN EmiRaised           \* factor - 1 = 0
        ELSE IF bot < 0 THEN EmiValue(Rat(RoundHalfEven(-top, -bot), 100))
        ELSE EmiValue(Rat(RoundHalfEven(top, bot), 100))

calculate_emi_no_tenure_guard(principal, tenure_months, annual_rate) ==
    IF principal <= 0 THEN EmiValue(Rat(0, 1))
    ELSE emi_formula(principal, tenure_months, annual_rate)

calculate_emi(principal, tenure_months, annual_rate) ==
    IF principal <= 0 \/ tenure_months <= 0 THEN EmiValue(Rat(0, 1))
    ELSE emi_formula(principal, tenure_months, annual_rate)

\* lines 9-36 for a principal given in hundredths (a float with two
\* decimals, as round(x, 2) returns): principal / 100 in place of principal
calculate_emi_of_hundredths(principal, tenure_months, annual_rate) ==
    LET g == Gcd(annual_rate, 1200)
        rn == annual_rate \div g
        rd == 1200 \div g
        f == Factor(rn, rd, tenure_months)
        fn == f[1]
        fd == f[2]
        h == Gcd(rn, rd)
        top == principal * fn * (rn \div h)
        bot == (rd \div h) * (fn - fd)
    IN  IF principal <= 0 \/ tenure_months <= 0 THEN EmiValue(Rat(0, 1))
        ELSE IF annual_rate = 0 THEN EmiValue(Rat(principal, 100 * tenure_months))
        ELSE IF fd = 0 THEN EmiRaised
        ELSE IF bot = 0 THEN EmiRaised
        ELSE IF bot < 0 THEN EmiValue(Rat(RoundHalfEven(-top, -bot), 100))
        ELSE EmiValue(Rat(RoundHalfEven(top, bot), 100))

(***************************************************************************)
(* services/risk_engine.py: calculate_risk_score.                          *)
(* income, expenses and existing_emi are whole currency units. The score   *)
(* is held in hundredths of a point (round(score, 2)); reasons are the     *)
(* f-strings' kinds, in the order appended. raised is an uncaught          *)
(* ZeroDivisionError.                                                      *)
(***************************************************************************)
ScoreScale == 100

RiskResult(score, status, emi, reasons) ==
    [raised |-> FALSE, score |-> score, status |-> status, emi |-> emi,
     reasons |-> reasons]

RiskRaised ==
    [raised |-> TRUE, score |-> 0, status |-> "NONE", emi |-> Rat(0, 1),
     reasons |-> <<>>]

RatAddInt(x, i) == Rat(x.num + i * x.den, x.den)

Min(a, b) == IF a < b THEN a ELSE b

Rule(points, reasons) == [points |-> points, reasons |-> reasons]

\* line 99: (total_emi + expenses) > income
affordability_exceeded_ignoring_expenses(total_emi, expenses, income) ==
    RatGt(total_emi, income, 1)

affordability_exceeded(total_emi, expenses, income) ==
    RatGt(RatAddInt(total_emi, expenses), income, 1)

\* lines 126-133: total EMI against disposable income
disposable_rule_single_tier(total_emi, disposable_income) ==
    LET emi_to_disposable == Rat(total_emi.num, total_emi.den * disposable_income)
    IN  IF disposable_income > 0 /\ RatGt(emi_to_disposable, 50, 100)
            THEN Rule(40 * ScoreScale, <<"DisposableVeryHigh">>)
        ELSE Rule(0, <<>>)

disposable_rule_without_moderate_tier(total_emi, disposable_income) ==
    LET emi_to_disposable == Rat(total_emi.num, total_emi.den * disposable_income)
    IN  IF disposable_income > 0 /\ RatGt(emi_to_disposable, 70, 100)
            THEN Rule(40 * ScoreScale, <<"DisposableVeryHigh">>)
        ELSE Rule(0, <<>>)

disposable_rule(total_emi, disposable_income) ==
    LET emi_to_disposable == Rat(total_emi.num, total_emi.den * disposable_income)
    IN  IF disposable_income > 0 /\ RatGt(emi_to_disposable, 70, 100)
            THEN Rule(40 * ScoreScale, <<"DisposableVeryHigh">>)
        ELSE IF disposable_income > 0 /\ RatGt(emi_to_disposable, 50, 100)
            THEN Rule(25 * ScoreScale, <<"DisposableModerate">>)
        ELSE Rule(0, <<>>)

\* lines 139-146: the DTI rule, which always appends a reason
dti_rule_independent_ifs(dti_ratio) ==
    Rule((IF RatGt(dti_ratio, 60, 100) THEN 50 * ScoreScale ELSE 0)
             + (IF RatGt(dti_ratio, 40, 100) THEN 30 * ScoreScale ELSE 0),
         (IF RatGt(dti_ratio, 60, 100) THEN <<"CriticalDTI">> ELSE <<>>)
             \o (IF RatGt(dti_ratio, 40, 100) THEN <<"HighDTI">>
                 ELSE <<"HealthyDTI">>))

dti_rule(dti_ratio) ==
    IF RatGt(dti_ratio, 60, 100) THEN Rule(50 * ScoreScale, <<"CriticalDTI">>)
    ELSE IF RatGt(dti_ratio, 40, 100) THEN Rule(30 * ScoreScale, <<"HighDTI">>)
    ELSE Rule(0, <<"HealthyDTI">>)

\* lines 149-151
expense_rule_inclusive(expense_ratio) ==
    IF ~RatGt(Rat(70, 100), expense_ratio.num, expense_ratio.den)
    THEN Rule(20 * ScoreScale, <<"HighExpenseRatio">>)
    ELSE Rule(0, <<>>)

expense_rule(expense_ratio) ==
    IF RatGt(expense_ratio, 70, 100)
    THEN Rule(20 * ScoreScale, <<"HighExpenseRatio">>)
    ELSE Rule(0, <<>>)

\* line 154
multiplier_applies(dti_ratio, expense_ratio) ==
    RatGt(dti_ratio, 50, 100) /\ RatGt(expense_ratio, 80, 100)

\* line 159
cap_score(score) == Min(100 * ScoreScale, score)

\* lines 162-165
risk_status_reject_above_60(score) ==
    IF score > 60 * ScoreScale THEN "REJECTED" ELSE "APPROVED"

risk_status(score) ==
    IF score > 50 * ScoreScale THEN "REJECTED" ELSE "APPROVED"

\* lines 81-172: everything after the income guard. A division by income
\* raises when income = 0; the ratios are compared by cross-multiplication.
risk_score_body(amount, tenure_months, income, expenses, existing_emi) ==
    LET e == calculate_emi(amount, tenure_months, 12)
        new_emi == e.value
        total_emi == RatAddInt(new_emi, existing_emi)
        \* dti_ratio = total_emi / income, expense_ratio = expenses / income
        dti_ratio == Rat(total_emi.num, total_emi.den * income)
        expense_ratio == Rat(expenses, income)
        disposable_income == income - expenses
        r0 == IF existing_emi > 0 THEN <<"ExistingEmis">> ELSE <<>>
        d1 == disposable_rule(total_emi, disposable_income)
        d2 == dti_rule(dti_ratio)
        d3 == expense_rule(expense_ratio)
        mult == multiplier_applies(dti_ratio, expense_ratio)
        sum == d1.points + d2.points + d3.points
        s4 == IF mult THEN (sum * 3) \div 2 ELSE sum
        r4 == IF mult THEN <<"RiskMultiplier">> ELSE <<>>
        score == cap_score(s4)
    IN  IF e.raised \/ income = 0 THEN RiskRaised
        ELSE IF affordability_exceeded(total_emi, expenses, income) THEN
            IF existing_emi > 0
            THEN RiskResult(100 * ScoreScale, "REJECTED", new_emi,
                            <<"UnaffordableWithExisting", "CannotAffordWithExisting">>)
            ELSE RiskResult(100 * ScoreScale, "REJECTED", new_emi,
                            <<"Unaffordable", "CannotAfford">>)
        ELSE RiskResult(score, risk_status(score), new_emi,
                        r0 \o d1.reasons \o d2.reasons \o d3.reasons \o r4)

calculate_risk_score_guard_lt(amount, tenure_months, income, expenses, existing_emi) ==
    IF income < 0
    THEN RiskResult(100 * ScoreScale, "REJECTED", Rat(0, 1), <<"InvalidIncome">>)
    ELSE risk_score_body(amount, tenure_months, income, expenses, existing_emi)

calculate_risk_score(amount, tenure_months, income, expenses, existing_emi) ==
    IF income <= 0
    THEN RiskResult(100 * ScoreScale, "REJECTED", Rat(0, 1), <<"InvalidIncome">>)
    ELSE risk_score_body(amount, tenure_months, income, expenses, existing_emi)

(***************************************************************************)
(* Rational helpers for routers/admin.py, kept in lowest terms so that     *)
(* the products stay small.                                                *)
(***************************************************************************)
Norm(n, d) == LET g == Gcd(n, d) IN Rat(n \div g, d \div g)

RatMul(x, y) ==
    LET g1 == Gcd(x.num, y.den)
        g2 == Gcd(y.num, x.den)
    IN  Rat((x.num \div g1) * (y.num \div g2), (x.den \div g2) * (y.den \div g1))

RatInv(x) == Rat(x.den, x.num)                  \* x.num # 0
RatAdd(x, y) == Norm(x.num * y.den + y.num * x.den, x.den * y.den)
RatSub(x, y) == Norm(x.num * y.den - y.num * x.den, x.den * y.den)
RatInt(i) == Rat(i, 1)

\* round(x, 2) in hundredths
RoundHundredths(x) ==
    (x.num \div x.den) * 100 + RoundHalfEven(100 * (x.num % x.den), x.den)

(***************************************************************************)
(* routers/admin.py: analyze_risk, the body of POST /admin/risk-analysis   *)
(* for an admitted admin. risk_score is in whole points. raised is the     *)
(* except branch: HTTP 400 "Risk analysis failed".                         *)
(***************************************************************************)
\* lines 385-390
age_rule_near_retirement_15(age) ==
    IF age < 25 THEN Rule(10, <<"YoungAge">>)
    ELSE IF age > 55 THEN Rule(15, <<"AgeAbove55">>)
    ELSE Rule(0, <<>>)

age_rule(age) ==
    IF age < 25 THEN Rule(10, <<"YoungAge">>)
    ELSE IF age > 55 THEN Rule(8, <<"AgeAbove55">>)
    ELSE Rule(0, <<>>)

\* lines 393-398
employment_rule_independent_ifs(employment_years) ==
    Rule((IF employment_years < 1 THEN 20 ELSE 0)
             + (IF employment_years < 3 THEN 10 ELSE 0),
         (IF employment_years < 1 THEN <<"EmploymentUnder1">> ELSE <<>>)
             \o (IF employment_years < 3 THEN <<"EmploymentUnder3">> ELSE <<>>))

employment_rule(employment_years) ==
    IF employment_years < 1 THEN Rule(20, <<"EmploymentUnder1">>)
    ELSE IF employment_years < 3 THEN Rule(10, <<"EmploymentUnder3">>)
    ELSE Rule(0, <<>>)

\* lines 401-412
customer_score_rule(customer_score) ==
    IF customer_score < 300 THEN Rule(35, <<"VeryLowCustomerScore">>)
    ELSE IF customer_score < 500 THEN Rule(25, <<"LowCustomerScore">>)
    ELSE IF customer_score < 650 THEN Rule(15, <<"BelowAverageCustomerScore">>)
    ELSE IF customer_score < 750 THEN Rule(5, <<"AverageCustomerScore">>)
    ELSE Rule(0, <<>>)

\* lines 415-423: emi_to_income is a percentage
emi_to_income_rule(emi_to_income) ==
    IF RatGt(emi_to_income, 60, 1) THEN Rule(30, <<"EmiToIncomeTooHigh">>)
    ELSE IF RatGt(emi_to_income, 50, 1) THEN Rule(20, <<"HighEmiToIncome">>)
    ELSE IF RatGt(emi_to_income, 40, 1) THEN Rule(10, <<"ModerateEmiToIncome">>)
    ELSE Rule(0, <<>>)

\* lines 427-435
loan_to_income_rule(loan_to_income) ==
    IF RatGt(loan_to_income, 5, 1) THEN Rule(25, <<"LoanOver5xIncome">>)
    ELSE IF RatGt(loan_to_income, 3, 1) THEN Rule(15, <<"LoanOver3xIncome">>)
    ELSE IF RatGt(loan_to_income, 2, 1) THEN Rule(5, <<"LoanOver2xIncome">>)
    ELSE Rule(0, <<>>)

\* lines 438-440
mismatch_rule(has_expense_mismatch) ==
    IF has_expense_mismatch THEN Rule(20, <<"ExpenseMismatch">>) ELSE Rule(0, <<>>)

\* line 443
cap_risk_score_missing(risk_score) == risk_score

cap_risk_score(risk_score) == Min(risk_score, 100)

\* lines 446-457
classify_exclusive_bands(risk_score) ==
    IF risk_score < 25 THEN [risk_category |-> "LOW", decision |-> "AUTO_APPROVE"]
    ELSE IF risk_score < 50 THEN [risk_category |-> "MEDIUM", decision |-> "MANUAL_REVIEW"]
    ELSE [risk_category |-> "HIGH", decision |-> "AUTO_REJECT"]

classify(risk_score) ==
    IF risk_score <= 25 THEN [risk_category |-> "LOW", decision |-> "AUTO_APPROVE"]
    ELSE IF risk_score <= 50 THEN [risk_category |-> "MEDIUM", decision |-> "MANUAL_REVIEW"]
    ELSE [risk_category |-> "HIGH", decision |-> "AUTO_REJECT"]

\* line 474
risk_factors_or_default_identity(risk_factors) == risk_factors

risk_factors_or_default(risk_factors) ==
    IF risk_factors # <<>> THEN risk_factors ELSE <<"NoSignificantRiskFactors">>

AnalysisRaised ==
    [raised |-> TRUE, risk_score |-> 0, risk_category |-> "NONE",
     decision |-> "NONE", monthly_emi |-> 0, emi_to_income_ratio |-> 0,
     debt_to_income_ratio |-> 0, max_recommended_loan |-> 0,
     risk_factors |-> <<>>]

\* lines 460-461: max_emi_affordable, 40% of (monthly income - expenses)
affordable_installment_net_of_existing_loan(req) ==
    RatSub(RatMul(Rat(req.annual_income, 12), Rat(2, 5)),
           Rat(req.existing_loan_amount, 12))

affordable_installment_fifty_percent(req) ==
    RatMul(RatSub(Rat(req.annual_income, 12), RatInt(req.monthly_expenses)),
           Rat(1, 2))

affordable_installment(req) ==
    RatMul(RatSub(Rat(req.annual_income, 12), RatInt(req.monthly_expenses)),
           Rat(2, 5))

\* line 473: max(max_loan, 0)
floor_at_zero_missing(x) == x

floor_at_zero(x) == IF x.num > 0 THEN x ELSE RatInt(0)

\* line 473: round(..., 2), in hundredths
round_loan_down_to_thousands(x) == ((x.num \div x.den) \div 1000) * 1000 * 100

round_loan(x) == RoundHundredths(x)

\* lines 459-473: the principal whose installment is max_emi_affordable,
\* for loan_tenure_months # 0
max_recommended_loan(req) ==
    LET rate == Rat(1, 100)
        f == Factor(1, 100, req.loan_tenure_months)
        pw == Rat(f[1], f[2])
        pw_minus_1 == RatSub(pw, RatInt(1))
        max_loan == RatMul(RatMul(affordable_installment(req), pw_minus_1),
                           RatInv(RatMul(rate, pw)))
    IN  round_loan(floor_at_zero(max_loan))

\* lines 363-475: the try body; raised is the ZeroDivisionError of
\* pow(1 + rate, 0) - 1 = 0 or of monthly_income = 0
risk_assessment(req) ==
    LET monthly_income == Rat(req.annual_income, 12)
        rate == Rat(1, 100)                       \* 0.12 / 12
        months == req.loan_tenure_months
        principal == req.loan_amount_requested
        f == Factor(1, 100, months)               \* pow(1 + rate, months)
        pw == Rat(f[1], f[2])
        pw_minus_1 == RatSub(pw, RatInt(1))
        emi == RatMul(RatMul(RatMul(RatInt(principal), rate), pw), RatInv(pw_minus_1))
        emi_to_income == RatMul(RatMul(emi, RatInv(monthly_income)), RatInt(100))
        total_monthly_debt == RatAdd(emi, Rat(req.existing_loan_amount, 12))
        debt_to_income ==
            RatMul(RatMul(total_monthly_debt, RatInv(monthly_income)), RatInt(100))
        loan_to_income == Rat(req.loan_amount_requested, req.annual_income)
        a == age_rule(req.age)
        e == employment_rule(req.employment_years)
        c == customer_score_rule(req.customer_score)
        i == emi_to_income_rule(emi_to_income)
        l == loan_to_income_rule(loan_to_income)
        m == mismatch_rule(req.has_expense_mismatch)
        risk_score ==
            cap_risk_score(a.points + e.points + c.points + i.points + l.points + m.points)
        risk_factors ==
            a.reasons \o e.reasons \o c.reasons \o i.reasons \o l.reasons \o m.reasons
        cls == classify(risk_score)
    IN  IF pw_minus_1.num = 0 \/ req.annual_income = 0 THEN AnalysisRaised
        ELSE [raised |-> FALSE,
              risk_score |-> risk_score,
              risk_category |-> cls.risk_category,
              decision |-> cls.decision,
              monthly_emi |-> RoundHundredths(emi),
              emi_to_income_ratio |-> RoundHundredths(emi_to_income),
              debt_to_income_ratio |-> RoundHundredths(debt_to_income),
              max_recommended_loan |-> max_recommended_loan(req),
              risk_factors |-> risk_factors_or_default(risk_factors)]

\* lines 363-481: the try body, or HTTP 400 from the except branch. The
\* variant below withholds AUTO_APPROVE from a customer score under 650.
analyze_risk_with_credit_gate(req) ==
    LET r == risk_assessment(req)
    IN  IF r.raised THEN AnalysisRaised
        ELSE IF r.decision = "AUTO_APPROVE" /\ req.customer_score < 650
            THEN [r EXCEPT !.decision = "MANUAL_REVIEW"]
        ELSE r

analyze_risk(req) ==
    LET r == risk_assessment(req)
    IN  IF r.raised THEN AnalysisRaised ELSE r

\* lines 157-164: the category get_all_loans derives from a stored risk_score
\* (in hundredths of a point, as calculate_risk_score stores it)
derive_risk_category_analysis_bands(score) ==
    IF score <= 25 * ScoreScale THEN "LOW"
    ELSE IF score <= 50 * ScoreScale THEN "MEDIUM"
    ELSE "HIGH"

derive_risk_category(score) ==
    IF score <= 30 * ScoreScale THEN "LOW"
    ELSE IF score <= 60 * ScoreScale THEN "MEDIUM"
    ELSE "HIGH"

\* lines 133-166: one row of the listing. The profile lookup gives the
\* user's name or "Unknown"; a row with a risk_category, or without a
\* risk_score, keeps its category.
enrich_loan(loan) ==
    LET user_name == IF loan.user_id # "" /\ loan.profile_found
                     THEN loan.user_id ELSE "Unknown"
        category == IF loan.risk_category = "" /\ loan.has_risk_score
                    THEN derive_risk_category(loan.risk_score)
                    ELSE loan.risk_category
    IN  [user_name |-> user_name, risk_category |-> category,
         risk_score |-> loan.risk_score]

(***************************************************************************)
(* The HTTP layer: utils/security.py, routers/loans.py, routers/admin.py,  *)
(* routers/agent.py and routers/zudu.py. FastAPI resolves an endpoint's    *)
(* dependencies before its body runs, so each handler below starts with    *)
(* its dependency (get_current_user or verify_admin) and stops at the      *)
(* first HTTPException. A response records the status code, whether the    *)
(* handler body was entered and whether Supabase (auth or tables) was      *)
(* contacted. Request bodies are valid for their schema.                   *)
(***************************************************************************)
MaxLoans == 2

NoToken == "none"
NoHeader == "none"
NoUser == "none"
NoBody == [found |-> FALSE]

\* supabase_client.auth.get_user(token): the user of a token, if any
auth_get_user(token) ==
    CASE token = "user_token" -> "u1"
      [] token = "admin_token" -> "a1"
      [] OTHER -> NoUser

\* table profiles: role and phone of each user
profile_role(user_id) == IF user_id = "a1" THEN "admin" ELSE "user"

profile_by_phone(phone_number) == IF phone_number = "p1" THEN "u1" ELSE NoUser

Dependency(code, user_id, contacted) ==
    [status_code |-> code, user_id |-> user_id, db_accessed |-> contacted]

get_current_user_client_first(token) ==
    IF ~env.supabase_client THEN Dependency(503, NoUser, FALSE)
    ELSE IF token = NoToken THEN Dependency(401, NoUser, FALSE)
    ELSE IF auth_get_user(token) = NoUser THEN Dependency(401, NoUser, TRUE)
    ELSE Dependency(200, auth_get_user(token), TRUE)

get_current_user(token) ==
    IF token = NoToken THEN Dependency(401, NoUser, FALSE)
    ELSE IF ~env.supabase_client THEN Dependency(503, NoUser, FALSE)
    ELSE IF auth_get_user(token) = NoUser THEN Dependency(401, NoUser, TRUE)
    ELSE Dependency(200, auth_get_user(token), TRUE)

verify_admin(token) ==
    LET current_user == get_current_user(token)
    IN  IF current_user.status_code # 200 THEN current_user
        ELSE IF ~env.supabase_client THEN Dependency(503, NoUser, TRUE)
        ELSE IF profile_role(current_user.user_id) # "admin"
        THEN Dependency(403, NoUser, TRUE)
        ELSE current_user

\* the response when a dependency raised: the handler body never ran
Refused(dep) ==
    [status_code |-> dep.status_code, handler_entered |-> FALSE,
     db_accessed |-> dep.db_accessed, body |-> NoBody]

\* the response when the handler body raised HTTPException(code)
Raised(code) ==
    [status_code |-> code, handler_entered |-> TRUE, db_accessed |-> TRUE,
     body |-> NoBody]

Unavailable ==
    [status_code |-> 503, handler_entered |-> TRUE, db_accessed |-> FALSE,
     body |-> NoBody]

Ok(body) ==
    [status_code |-> 200, handler_entered |-> TRUE, db_accessed |-> TRUE,
     body |-> body]

Outcome(resp, table) == [response |-> resp, loans |-> table]

\* the row apply_for_loan inserts and the LoanResponse it returns; of the
\* row only the columns some modelled handler reads are kept
save_application(user_id, application, risk_result) ==
    Outcome(Ok([id |-> Len(loans) + 1,
                status |-> risk_result.status,
                risk_score |-> risk_result.score,
                emi |-> risk_result.emi]),
            Append(loans, [user_id |-> user_id,
                           amount |-> application.amount,
                           emi |-> risk_result.emi,
                           status |-> risk_result.status]))

\* POST /loans/apply; existing_emi is left at its default 0.0
apply_for_loan(token, application) ==
    LET current_user == get_current_user(token)
    IN  IF current_user.status_code # 200
        THEN Outcome(Refused(current_user), loans)
        ELSE IF ~env.supabase_client THEN Outcome(Unavailable, loans)
        ELSE save_application(
                 current_user.user_id, application,
                 calculate_risk_score(application.amount,
                                      application.tenure_months,
                                      application.monthly_income,
                                      application.monthly_expenses, 0))

valid_statuses == {"PENDING", "APPROVED", "REJECTED"}

set_status(table, loan_id, status) ==
    [table EXCEPT ![loan_id] = [@ EXCEPT !.status = status]]

update_loan_status_legacy_unvalidated(update) ==
    IF ~env.supabase_client THEN Outcome(Unavailable, loans)
    ELSE IF update.loan_id \notin DOMAIN loans THEN Outcome(Raised(404), loans)
    ELSE Outcome(Ok([id |-> update.loan_id, status |-> update.status]),
                 set_status(loans, update.loan_id, update.status))

\* PATCH /admin/loans/{loan_id}/status
update_loan_status(token, loan_id, update) ==
    LET admin == verify_admin(token)
    IN  IF admin.status_code # 200 THEN Outcome(Refused(admin), loans)
        ELSE IF ~env.supabase_client THEN Outcome(Unavailable, loans)
        ELSE IF update.status \notin valid_statuses
        THEN Outcome(Raised(400), loans)
        ELSE IF loan_id \notin DOMAIN loans THEN Outcome(Raised(404), loans)
        ELSE Outcome(Ok([id |-> loan_id, status |-> update.status]),
                     set_status(loans, loan_id, update.status))

\* PATCH /admin/loans/status: no dependency, the loan is named in the body
update_loan_status_legacy(update) ==
    IF ~env.supabase_client THEN Outcome(Unavailable, loans)
    ELSE IF update.status \notin valid_statuses
    THEN Outcome(Raised(400), loans)
    ELSE IF update.loan_id \notin DOMAIN loans THEN Outcome(Raised(404), loans)
    ELSE Outcome(Ok([id |-> update.loan_id, status |-> update.status]),
                 set_status(loans, update.loan_id, update.status))

CountStatus(status) ==
    Cardinality({i \in DOMAIN loans : loans[i].status = status})

\* GET /admin/stats
get_dashboard_stats(token) ==
    LET admin == verify_admin(token)
    IN  IF admin.status_code # 200 THEN Refused(admin)
        ELSE IF ~env.supabase_client THEN Unavailable
        ELSE Ok([total_loans |-> Len(loans),
                 pending_count |-> CountStatus("PENDING"),
                 approved_count |-> CountStatus("APPROVED"),
                 rejected_count |-> CountStatus("REJECTED")])

\* GET /admin/loans
admin_get_all_loans(token) ==
    LET admin == verify_admin(token)
    IN  IF admin.status_code # 200 THEN Refused(admin)
        ELSE IF ~env.supabase_client THEN Unavailable
        ELSE Ok([total |-> Len(loans)])

LoansOf(user_id) == {i \in DOMAIN loans : loans[i].user_id = user_id}

\* GET /loans/my-loans
get_my_loans(token) ==
    LET current_user == get_current_user(token)
    IN  IF current_user.status_code # 200 THEN Refused(current_user)
        ELSE IF ~env.supabase_client THEN Unavailable
        ELSE Ok([total |-> Cardinality(LoansOf(current_user.user_id))])

\* POST /agent/chat
chat_with_agent(token) ==
    LET current_user == get_current_user(token)
    IN  IF current_user.status_code # 200 THEN Refused(current_user)
        ELSE IF ~env.supabase_client THEN Unavailable
        ELSE Ok([has_loan |-> LoansOf(current_user.user_id) # {}])

\* the inline key check of both Zudu endpoints
zudu_key_refused(x_zudu_key) ==
    /\ x_zudu_key # NoHeader
    /\ env.ZUDU_SECRET_KEY # ""
    /\ x_zudu_key # env.ZUDU_SECRET_KEY

Latest(rows) == CHOOSE i \in rows : \A j \in rows : j <= i

\* GET /zudu/loan-status/{phone_number}
get_loan_status_by_phone(phone_number, x_zudu_key) ==
    LET user_id == profile_by_phone(phone_number)
        rows == LoansOf(user_id)
    IN  IF zudu_key_refused(x_zudu_key) THEN Raised(401)
        ELSE IF ~env.supabase_client THEN Unavailable
        ELSE IF user_id = NoUser THEN Ok([found |-> FALSE])
        ELSE IF rows = {}
        THEN Ok([found |-> TRUE, user_name |-> user_id, has_loans |-> FALSE])
        ELSE Ok([found |-> TRUE, user_name |-> user_id,
                 loan_status |-> loans[Latest(rows)].status,
                 emi |-> loans[Latest(rows)].emi])

\* GET /zudu/payment-reminder/{phone_number}
get_payment_reminder(phone_number, x_zudu_key) ==
    LET user_id == profile_by_phone(phone_number)
        rows == {i \in LoansOf(user_id) : loans[i].status = "APPROVED"}
    IN  IF zudu_key_refused(x_zudu_key) THEN Raised(401)
        ELSE IF ~env.supabase_client THEN Unavailable
        ELSE IF user_id = NoUser THEN Ok([found |-> FALSE])
        ELSE IF rows = {}
        THEN Ok([found |-> TRUE, user_name |-> user_id,
                 has_approved_loan |-> FALSE])
        ELSE Ok([found |-> TRUE, user_name |-> user_id,
                 emi |-> loans[Latest(rows)].emi,
                 loan_id |-> Latest(rows)])

(***************************************************************************)
(* The calls explored: every argument tuple of the sets below.             *)
(***************************************************************************)
Tenures == -1 .. MaxTenure
Amounts == -1 .. MaxAmount
AnnualRates == {-2400, 0, 2, 12, 24}

\* 3 is the shortest tenure for which principal / tenure_months is not a
\* whole number of hundredths
EmiTenures == Tenures \cup {3}

EmiRequests ==
    [principal : Amounts, tenure_months : EmiTenures, annual_rate : AnnualRates]

RiskScoreRequests ==
    [amount : Amounts, tenure_months : Tenures, income : -1 .. MaxIncome,
     expenses : -1 .. MaxExpenses, existing_emi : 0 .. MaxExistingEmi]

Ages == {24, 25, 55, 56}
EmploymentYears == 0 .. 3
CustomerScores == {299, 300, 499, 500, 649, 650, 749, 750}
AnnualIncomes == {-12, 0, 1, 20, 24, 30}

RiskAnalysisRequests ==
    [age : Ages, employment_years : EmploymentYears,
     customer_score : CustomerScores, annual_income : AnnualIncomes,
     monthly_expenses : {0, 2}, loan_amount_requested : 0 .. MaxAmount,
     loan_tenure_months : Tenures, existing_loan_amount : {0, 12},
     has_expense_mismatch : BOOLEAN]

\* the requests of two assessments that are compared with each other
ComparedRequests ==
    [age : {24, 25}, employment_years : {1, 3},
     customer_score : {649, 749, 750}, annual_income : {20, 30},
     monthly_expenses : {0}, loan_amount_requested : {0, MaxAmount},
     loan_tenure_months : {1}, existing_loan_amount : {0},
     has_expense_mismatch : BOOLEAN]

StoredScores == {k * (ScoreScale \div 2) : k \in 0 .. 200}

LoanRows ==
    [user_id : {"", "u1"}, profile_found : BOOLEAN,
     risk_category : {"", "LOW", "MEDIUM", "HIGH"}, has_risk_score : BOOLEAN,
     risk_score : StoredScores]

NoResponse == [raised |-> FALSE]

\* the deployment: whether config.py built a Supabase client, and the
\* value of the environment variable ZUDU_SECRET_KEY ("" when unset)
Envs == [supabase_client : BOOLEAN, ZUDU_SECRET_KEY : {"", "k1"}]

DefaultEnv == [supabase_client |-> TRUE, ZUDU_SECRET_KEY |-> "k1"]

Tokens == {NoToken, "bad_token", "user_token", "admin_token"}

\* LoanCreate bodies: EMI 101.00; income 100 cannot afford it, income 250
\* can afford one such loan (DTI 40.4%) but not two
Applications ==
    [amount : {100}, tenure_months : {1}, monthly_income : {100, 250},
     monthly_expenses : {0}]

LoanIds == 1 .. MaxLoans

StatusUpdates ==
    [loan_id : LoanIds, status : valid_statuses \cup {"CANCELLED"}]

ZuduKeys == {NoHeader, "k1", "k2"}

PhoneNumbers == {"p0", "p1"}

NoRequest == [endpoint |-> "none"]

Init ==
    /\ pc = "call"
    /\ response = NoResponse
    /\ loans = <<>>
    /\ \/ op = "api" /\ request = NoRequest /\ env \in Envs
       \/ /\ env = DefaultEnv
          /\ \/ op = "calculate_emi" /\ request \in EmiRequests
             \/ op = "calculate_risk_score" /\ request \in RiskScoreRequests
             \/ op = "analyze_risk" /\ request \in RiskAnalysisRequests
             \/ op = "get_all_loans" /\ request \in LoanRows
             \/ /\ op = "analyze_risk_twice"
                /\ request \in [first : ComparedRequests,
                                second : ComparedRequests]

CalculateEmi ==
    /\ pc = "call" /\ op = "calculate_emi"
    /\ response' = calculate_emi(request.principal, request.tenure_months,
                                 request.annual_rate)
    /\ pc' = "return"
    /\ UNCHANGED <<op, request, env, loans>>

CalculateRiskScore ==
    /\ pc = "call" /\ op = "calculate_risk_score"
    /\ response' = calculate_risk_score(request.amount, request.tenure_months,
                                        request.income, request.expenses,
                                        request.existing_emi)
    /\ pc' = "return"
    /\ UNCHANGED <<op, request, env, loans>>

AnalyzeRisk ==
    /\ pc = "call" /\ op = "analyze_risk"
    /\ response' = analyze_risk(request)
    /\ pc' = "return"
    /\ UNCHANGED <<op, request, env, loans>>

GetAllLoans ==
    /\ pc = "call" /\ op = "get_all_loans"
    /\ response' = enrich_loan(request)
    /\ pc' = "return"
    /\ UNCHANGED <<op, request, env, loans>>

\* two calls of analyze_risk, one after the other
AnalyzeRiskFirst ==
    /\ pc = "call" /\ op = "analyze_risk_twice"
    /\ response' = [raised |-> FALSE, first |-> analyze_risk(request.first)]
    /\ pc' = "second"
    /\ UNCHANGED <<op, request, env, loans>>

AnalyzeRiskSecond ==
    /\ pc = "second" /\ op = "analyze_risk_twice"
    /\ response' = [raised |-> FALSE, first |-> response.first,
                    second |-> analyze_risk(request.second)]
    /\ pc' = "return"
    /\ UNCHANGED <<op, request, env, loans>>

\* one HTTP request served; requests follow one another in any order
\* (the body of a status update names the loan of its path)
ApplyForLoan ==
    /\ op = "api"
    /\ Len(loans) < MaxLoans
    /\ \E token \in Tokens, application \in Applications :
          LET r == apply_for_loan(token, application)
          IN  /\ request' = [endpoint |-> "apply_for_loan", token |-> token,
                             application |-> application]
              /\ response' = r.response
              /\ loans' = r.loans
    /\ pc' = "return"
    /\ UNCHANGED <<op, env>>

UpdateLoanStatus ==
    /\ op = "api"
    /\ \E token \in Tokens, update \in StatusUpdates :
          LET r == update_loan_status(token, update.loan_id, update)
          IN  /\ request' = [endpoint |-> "update_loan_status",
                             token |-> token, loan_id |-> update.loan_id,
                             update |-> update]
              /\ response' = r.response
              /\ loans' = r.loans
    /\ pc' = "return"
    /\ UNCHANGED <<op, env>>

\* the token is whatever the caller sent; the endpoint never reads it
UpdateLoanStatusLegacy ==
    /\ op = "api"
    /\ \E token \in Tokens, update \in StatusUpdates :
          LET r == update_loan_status_legacy(update)
          IN  /\ request' = [endpoint |-> "update_loan_status_legacy",
                             token |-> token, update |-> update]
              /\ response' = r.response
              /\ loans' = r.loans
    /\ pc' = "return"
    /\ UNCHANGED <<op, env>>

GetDashboardStats ==
    /\ op = "api"
    /\ \E token \in Tokens :
          /\ request' = [endpoint |-> "get_dashboard_stats", token |-> token]
          /\ response' = get_dashboard_stats(token)
    /\ pc' = "return"
    /\ UNCHANGED <<op, env, loans>>

AdminGetAllLoans ==
    /\ op = "api"
    /\ \E token \in Tokens :
          /\ request' = [endpoint |-> "get_all_loans", token |-> token]
          /\ response' = admin_get_all_loans(token)
    /\ pc' = "return"
    /\ UNCHANGED <<op, env, loans>>

GetMyLoans ==
    /\ op = "api"
    /\ \E token \in Tokens :
          /\ request' = [endpoint |-> "get_my_loans", token |-> token]
          /\ response' = get_my_loans(token)
    /\ pc' = "return"
    /\ UNCHANGED <<op, env, loans>>

ChatWithAgent ==
    /\ op = "api"
    /\ \E token \in Tokens :
          /\ request' = [endpoint |-> "chat_with_agent", token |-> token]
          /\ response' = chat_with_agent(token)
    /\ pc' = "return"
    /\ UNCHANGED <<op, env, loans>>

GetLoanStatusByPhone ==
    /\ op = "api"
    /\ \E phone_number \in PhoneNumbers, x_zudu_key \in ZuduKeys :
          /\ request' = [endpoint |-> "get_loan_status_by_phone",
                         phone_number |-> phone_number,
                         x_zudu_key |-> x_zudu_key]
          /\ response' = get_loan_status_by_phone(phone_number, x_zudu_key)
    /\ pc' = "return"
    /\ UNCHANGED <<op, env, loans>>

GetPaymentReminder ==
    /\ op = "api"
    /\ \E phone_number \in PhoneNumbers, x_zudu_key \in ZuduKeys :
          /\ request' = [endpoint |-> "get_payment_reminder",
                         phone_number |-> phone_number,
                         x_zudu_key |-> x_zudu_key]
          /\ response' = get_payment_reminder(phone_number, x_zudu_key)
    /\ pc' = "return"
    /\ UNCHANGED <<op, env, loans>>

Next ==
    \/ CalculateEmi
    \/ CalculateRiskScore
    \/ AnalyzeRisk
    \/ GetAllLoans
    \/ AnalyzeRiskFirst
    \/ AnalyzeRiskSecond
    \/ ApplyForLoan
    \/ UpdateLoanStatus
    \/ UpdateLoanStatusLegacy
    \/ GetDashboardStats
    \/ AdminGetAllLoans
    \/ GetMyLoans
    \/ ChatWithAgent
    \/ GetLoanStatusByPhone
    \/ GetPaymentReminder

Spec == Init /\ [][Next]_vars

Returned(name) == pc = "return" /\ op = name

(***************************************************************************)
(* Claims.                                                                 *)
(***************************************************************************)
Analyzed == Returned("analyze_risk") /\ ~response.raised
Scored == Returned("calculate_risk_score")

\* C1: whenever has_expense_mismatch is true, the decision analyze_risk
\* returns is AUTO_REJECT, whatever the other inputs are.
C1_MismatchAlwaysRejects ==
    (Analyzed /\ request.has_expense_mismatch) => response.decision = "AUTO_REJECT"

\* C2: every score calculate_risk_score returns (early returns included) and
\* every score analyze_risk returns lies in [0, 100].
C2_ScoreInRange ==
    /\ Scored =>
        /\ ~response.raised
        /\ 0 <= response.score /\ response.score <= 100 * ScoreScale
    /\ Analyzed => (0 <= response.risk_score /\ response.risk_score <= 100)

C2_Witness ==
    Analyzed /\ response.risk_score = 100 /\ Len(response.risk_factors) = 6

\* C3: the reasons calculate_risk_score returns and the risk factors
\* analyze_risk returns are never empty; when no analyze_risk rule triggers
\* (the score is 0) the list is exactly the neutral fallback entry.
C3_ReasonsNonEmpty ==
    /\ Scored => (~response.raised /\ response.reasons # <<>>)
    /\ Analyzed =>
        /\ response.risk_factors # <<>>
        /\ response.risk_score = 0 =>
               response.risk_factors = <<"NoSignificantRiskFactors">>

C3_Witness ==
    /\ Analyzed /\ response.risk_score = 0
    /\ response.risk_factors = <<"NoSignificantRiskFactors">>

\* C4 as stated: without a mismatch the decision is AUTO_APPROVE exactly when
\* score < 30 and customer_score >= 650, else MANUAL_REVIEW exactly when
\* score < 50, else AUTO_REJECT.
C4_Original ==
    (Analyzed /\ ~request.has_expense_mismatch) =>
        response.decision =
            IF response.risk_score < 30 /\ request.customer_score >= 650
                THEN "AUTO_APPROVE"
            ELSE IF response.risk_score < 50 THEN "MANUAL_REVIEW"
            ELSE "AUTO_REJECT"

\* C4 amended: without a mismatch the decision is AUTO_APPROVE exactly when
\* score <= 25 (the customer score is not consulted), else MANUAL_REVIEW
\* exactly when score <= 50, else AUTO_REJECT.
C4_DecisionByScore ==
    (Analyzed /\ ~request.has_expense_mismatch) =>
        response.decision =
            IF response.risk_score <= 25 THEN "AUTO_APPROVE"
            ELSE IF response.risk_score <= 50 THEN "MANUAL_REVIEW"
            ELSE "AUTO_REJECT"

C4_Witness ==
    /\ Analyzed /\ ~request.has_expense_mismatch
    /\ response.risk_score = 25 /\ request.customer_score < 650
    /\ response.decision = "AUTO_APPROVE"

Derived ==
    /\ Returned("get_all_loans")
    /\ request.risk_category = "" /\ request.has_risk_score

\* C5 as stated: in analyze_risk and in the admin listing the category is
\* LOW below 30, MEDIUM in [30, 50), HIGH in [50, 70) and CRITICAL from 70.
C5_Original ==
    /\ Analyzed =>
        response.risk_category =
            IF response.risk_score < 30 THEN "LOW"
            ELSE IF response.risk_score < 50 THEN "MEDIUM"
            ELSE IF response.risk_score < 70 THEN "HIGH"
            ELSE "CRITICAL"
    /\ Derived =>
        response.risk_category =
            IF request.risk_score < 30 * ScoreScale THEN "LOW"
            ELSE IF request.risk_score < 50 * ScoreScale THEN "MEDIUM"
            ELSE IF request.risk_score < 70 * ScoreScale THEN "HIGH"
            ELSE "CRITICAL"

\* C5 amended: the category is a function of the score with three bands and
\* is never CRITICAL: analyze_risk gives LOW up to 25, MEDIUM above 25 up to
\* 50 and HIGH above 50; the admin listing gives a row without a category
\* LOW up to 30, MEDIUM above 30 up to 60 and HIGH above 60.
C5_CategoryBands ==
    /\ Analyzed =>
        response.risk_category =
            IF response.risk_score <= 25 THEN "LOW"
            ELSE IF response.risk_score <= 50 THEN "MEDIUM"
            ELSE "HIGH"
    /\ Derived =>
        response.risk_category =
            IF request.risk_score <= 30 * ScoreScale THEN "LOW"
            ELSE IF request.risk_score <= 60 * ScoreScale THEN "MEDIUM"
            ELSE "HIGH"

C5_Witness ==
    Derived /\ request.risk_score = 60 * ScoreScale /\ response.risk_category = "MEDIUM"

\* C6: calculate_emi returns exactly 0 and raises nothing whenever
\* principal <= 0 or tenure_months <= 0, for any annual rate.
C6_DegenerateEmiIsZero ==
    (Returned("calculate_emi") /\ (request.principal <= 0 \/ request.tenure_months <= 0))
        => (~response.raised /\ response.value.num = 0)

C6_Witness ==
    /\ Returned("calculate_emi")
    /\ request.principal > 0 /\ request.tenure_months = 0 /\ request.annual_rate = 12
    /\ ~response.raised /\ response.value.num = 0

\* C7: analyze_risk never ends in an error for degenerate inputs: with
\* loan_tenure_months <= 0 it reports a zero installment and with
\* annual_income <= 0 it reports saturated ratios (100% or more).
C7_DegenerateInputsAssessed ==
    Returned("analyze_risk") =>
        /\ request.loan_tenure_months <= 0 =>
               (~response.raised /\ response.monthly_emi = 0)
        /\ request.annual_income <= 0 =>
               /\ ~response.raised
               /\ response.emi_to_income_ratio >= 100 * 100
               /\ response.debt_to_income_ratio >= 100 * 100

\* C8: calculate_risk_score with income <= 0 returns REJECTED with score
\* exactly 100.0 and a non-empty reasons list, without raising.
C8_NoIncomeRejected ==
    (Scored /\ request.income <= 0) =>
        /\ ~response.raised
        /\ response.status = "REJECTED"
        /\ response.score = 100 * ScoreScale
        /\ response.reasons # <<>>

C8_Witness ==
    /\ Scored /\ request.income = 0 /\ request.amount > 0
    /\ response.status = "REJECTED" /\ response.reasons = <<"InvalidIncome">>

\* C9: in every result of calculate_risk_score the status is REJECTED iff
\* score > 50 and APPROVED iff score <= 50, early returns included.
C9_StatusFollowsScore ==
    Scored =>
        /\ ~response.raised
        /\ response.status = "REJECTED" <=> response.score > 50 * ScoreScale
        /\ response.status = "APPROVED" <=> response.score <= 50 * ScoreScale

C9_Witness ==
    Scored /\ response.status = "APPROVED" /\ response.score = 45 * ScoreScale

Unaffordable ==
    LET new_emi == calculate_emi(request.amount, request.tenure_months, 12).value
    IN  /\ request.income > 0
        /\ (new_emi.num + (request.existing_emi + request.expenses) * new_emi.den)
               > request.income * new_emi.den

\* C10: with income > 0, whenever new EMI + existing EMI + expenses exceeds
\* income, calculate_risk_score rejects at once: REJECTED, score 100.0, the
\* computed new EMI in the emi field, and only the two unaffordability
\* reasons (no DTI, expense-ratio or multiplier rule ran).
C10_UnaffordableInstantReject ==
    (Scored /\ Unaffordable) =>
        /\ ~response.raised
        /\ response.status = "REJECTED"
        /\ response.score = 100 * ScoreScale
        /\ RatEq(response.emi,
                 calculate_emi(request.amount, request.tenure_months, 12).value)
        /\ response.reasons \in
               {<<"Unaffordable", "CannotAfford">>,
                <<"UnaffordableWithExisting", "CannotAffordWithExisting">>}

C10_Witness ==
    /\ Scored /\ Unaffordable
    /\ request.existing_emi > 0 /\ response.emi.num > 0
    /\ response.emi.num <= request.income * response.emi.den
    /\ response.reasons = <<"UnaffordableWithExisting", "CannotAffordWithExisting">>


(***************************************************************************)
(* The scoring table of analyze_risk, restated from the request alone.     *)
(***************************************************************************)
\* emi / monthly_income * 100 of the request, as 12 * P * f / ((f - 1) * I)
InstallmentPercent ==
    LET f == Factor(1, 100, request.loan_tenure_months)
    IN  Norm(12 * request.loan_amount_requested * f[1],
             (f[1] - f[2]) * request.annual_income)

AgePoints == IF request.age < 25 THEN 10 ELSE IF request.age > 55 THEN 8 ELSE 0

EmploymentPoints ==
    IF request.employment_years < 1 THEN 20
    ELSE IF request.employment_years < 3 THEN 10 ELSE 0

CustomerScorePoints ==
    IF request.customer_score < 300 THEN 35
    ELSE IF request.customer_score < 500 THEN 25
    ELSE IF request.customer_score < 650 THEN 15
    ELSE IF request.customer_score < 750 THEN 5 ELSE 0

InstallmentPoints ==
    IF RatGt(InstallmentPercent, 60, 1) THEN 30
    ELSE IF RatGt(InstallmentPercent, 50, 1) THEN 20
    ELSE IF RatGt(InstallmentPercent, 40, 1) THEN 10 ELSE 0

LoanToIncomePoints ==
    LET l == Rat(request.loan_amount_requested, request.annual_income)
    IN  IF RatGt(l, 5, 1) THEN 25
        ELSE IF RatGt(l, 3, 1) THEN 15
        ELSE IF RatGt(l, 2, 1) THEN 5 ELSE 0

MismatchPoints == IF request.has_expense_mismatch THEN 20 ELSE 0

TablePoints ==
    AgePoints + EmploymentPoints + CustomerScorePoints + InstallmentPoints
        + LoanToIncomePoints + MismatchPoints

\* The table of the written policy: its tiers and weights.
PolicyPoints ==
    (IF request.age < 25 THEN 10 ELSE IF request.age > 55 THEN 15 ELSE 0)
    + (IF request.employment_years < 2 THEN 20
       ELSE IF request.employment_years < 5 THEN 5 ELSE 0)
    + (IF request.customer_score < 500 THEN 35
       ELSE IF request.customer_score < 650 THEN 20
       ELSE IF request.customer_score < 750 THEN 10 ELSE 0)
    + (IF RatGt(InstallmentPercent, 50, 1) THEN 30
       ELSE IF RatGt(InstallmentPercent, 40, 1) THEN 20
       ELSE IF RatGt(InstallmentPercent, 30, 1) THEN 10 ELSE 0)
    + (IF RatGt(Rat(12 * request.monthly_expenses, request.annual_income), 7, 10)
       THEN 15 ELSE 0)
    + (IF 2 * request.existing_loan_amount > request.annual_income THEN 20 ELSE 0)
    + (IF request.has_expense_mismatch THEN 40 ELSE 0)

ValidAssessment ==
    Analyzed /\ request.annual_income > 0 /\ request.loan_tenure_months >= 1

\* C11 as stated: the score is min(100, points of the written policy's
\* table), for an assessment of a positive income and tenure.
C11_Original == ValidAssessment => response.risk_score = Min(100, PolicyPoints)

\* C11: the score analyze_risk returns is min(100, sum of the points of its
\* own table): age < 25 +10, > 55 +8; employment_years < 1 +20, < 3 +10;
\* customer_score < 300 +35, < 500 +25, < 650 +15, < 750 +5; emi_to_income
\* > 60 +30, > 50 +20, > 40 +10; loan_to_income > 5 +25, > 3 +15, > 2 +5;
\* has_expense_mismatch +20. Expenses and the existing loan score nothing.
C11_ScoreIsCappedTableSum == Analyzed => response.risk_score = Min(100, TablePoints)

C11_Witness ==
    /\ ValidAssessment
    /\ request.age = 56 /\ request.employment_years = 2
    /\ request.customer_score = 649 /\ request.existing_loan_amount = 12
    /\ request.monthly_expenses = 2 /\ request.has_expense_mismatch
    /\ response.risk_score = 8 + 10 + 15 + 20 + InstallmentPoints + LoanToIncomePoints
    /\ response.risk_score < 100
    /\ PolicyPoints # response.risk_score

(***************************************************************************)
(* Tiers of one group exclude each other.                                  *)
(***************************************************************************)
AgeTags == {"YoungAge", "AgeAbove55"}
EmploymentTags == {"EmploymentUnder1", "EmploymentUnder3"}
CustomerScoreTags ==
    {"VeryLowCustomerScore", "LowCustomerScore", "BelowAverageCustomerScore",
     "AverageCustomerScore"}
InstallmentTags == {"EmiToIncomeTooHigh", "HighEmiToIncome", "ModerateEmiToIncome"}

TagCount(tags) ==
    Cardinality({k \in DOMAIN response.risk_factors : response.risk_factors[k] \in tags})

HasTag(tag) == \E k \in DOMAIN response.risk_factors : response.risk_factors[k] = tag

TagPoints(tag) ==
    CASE tag = "YoungAge" -> 10
      [] tag = "AgeAbove55" -> 8
      [] tag = "EmploymentUnder1" -> 20
      [] tag = "EmploymentUnder3" -> 10
      [] tag = "VeryLowCustomerScore" -> 35
      [] tag = "LowCustomerScore" -> 25
      [] tag = "BelowAverageCustomerScore" -> 15
      [] tag = "AverageCustomerScore" -> 5
      [] tag = "EmiToIncomeTooHigh" -> 30
      [] tag = "HighEmiToIncome" -> 20
      [] tag = "ModerateEmiToIncome" -> 10
      [] tag = "LoanOver5xIncome" -> 25
      [] tag = "LoanOver3xIncome" -> 15
      [] tag = "LoanOver2xIncome" -> 5
      [] tag = "ExpenseMismatch" -> 20
      [] OTHER -> 0

RECURSIVE SumTagPoints(_)
SumTagPoints(tags) ==
    IF tags = <<>> THEN 0 ELSE TagPoints(Head(tags)) + SumTagPoints(Tail(tags))

\* C12: in the age, employment, customer-score and EMI groups at most one
\* tier appends a reason, that tier is the most severe one that matches, and
\* the score is the capped sum of the points of the reasons of all groups.
C12_OneTierPerGroup ==
    Analyzed =>
        /\ TagCount(AgeTags) <= 1
        /\ TagCount(EmploymentTags) <= 1
        /\ TagCount(CustomerScoreTags) <= 1
        /\ TagCount(InstallmentTags) <= 1
        /\ request.employment_years < 1 => HasTag("EmploymentUnder1")
        /\ request.customer_score < 300 => HasTag("VeryLowCustomerScore")
        /\ (request.customer_score >= 300 /\ request.customer_score < 500)
               => HasTag("LowCustomerScore")
        /\ (request.customer_score >= 500 /\ request.customer_score < 650)
               => HasTag("BelowAverageCustomerScore")
        /\ RatGt(InstallmentPercent, 60, 1) => HasTag("EmiToIncomeTooHigh")
        /\ (RatGt(InstallmentPercent, 50, 1) /\ ~RatGt(InstallmentPercent, 60, 1))
               => HasTag("HighEmiToIncome")
        /\ response.risk_score = Min(100, SumTagPoints(response.risk_factors))

C12_Witness ==
    /\ Analyzed
    /\ request.age = 24 /\ request.employment_years = 0
    /\ request.customer_score = 299
    /\ RatGt(InstallmentPercent, 60, 1)
    /\ ~request.has_expense_mismatch
    /\ LoanToIncomePoints = 0
    /\ response.risk_factors =
           <<"YoungAge", "EmploymentUnder1", "VeryLowCustomerScore", "EmiToIncomeTooHigh">>
    /\ response.risk_score = 95


(***************************************************************************)
(* The maximum recommended loan, in hundredths.                            *)
(***************************************************************************)
\* C13: the max_recommended_loan analyze_risk returns is never negative,
\* expenses above the income included.
C13_MaxLoanNonNegative == Analyzed => response.max_recommended_loan >= 0

C13_Witness ==
    /\ ValidAssessment
    /\ 12 * request.monthly_expenses > request.annual_income
    /\ response.max_recommended_loan = 0

\* 0.4 * (annual_income / 12 - monthly_expenses)
Ceiling == Rat(request.annual_income - 12 * request.monthly_expenses, 30)

\* 0.40 * annual_income / 12 - existing_loan_amount / 12
PolicyCeiling == Rat(2 * request.annual_income - 5 * request.existing_loan_amount, 60)

\* Ceiling * (f - 1) / (0.01 * f) with f = 1.01 ** loan_tenure_months
SolvedPrincipal ==
    LET f == Factor(1, 100, request.loan_tenure_months)
    IN  Norm((request.annual_income - 12 * request.monthly_expenses)
                 * (f[1] - f[2]) * 10,
             3 * f[1])

\* C14 as stated: the loan is 0 whenever 0.40 * monthly income less the
\* existing loan's monthly amount is <= 0, and the declared monthly
\* expenses do not change it.
C14_Original ==
    ValidAssessment =>
        /\ PolicyCeiling.num <= 0 => response.max_recommended_loan = 0
        /\ \A x \in {0, 2} :
               max_recommended_loan([request EXCEPT !.monthly_expenses = x])
                   = response.max_recommended_loan

\* C14: the loan is solved from 0.4 * (monthly income - monthly expenses):
\* it is round(max(0, that installment * (f - 1) / (0.01 * f)), 2), the
\* existing loan does not change it, and for a tenure of one month or more
\* it is 0 whenever that installment is <= 0.
C14_SolverUsesIncomeNetOfExpenses ==
    Analyzed =>
        /\ response.max_recommended_loan =
               (IF SolvedPrincipal.num > 0 THEN RoundHundredths(SolvedPrincipal) ELSE 0)
        /\ \A x \in {0, 12} :
               max_recommended_loan([request EXCEPT !.existing_loan_amount = x])
                   = response.max_recommended_loan
        /\ (request.loan_tenure_months >= 1 /\ Ceiling.num <= 0)
               => response.max_recommended_loan = 0

C14_Witness ==
    /\ ValidAssessment
    /\ request.monthly_expenses = 2
    /\ Ceiling.num < 0
    /\ PolicyCeiling.num > 0
    /\ response.max_recommended_loan = 0
    /\ max_recommended_loan([request EXCEPT !.monthly_expenses = 0]) > 0

\* C15 as stated: the loan is a whole multiple of 1,000.
C15_Original == Analyzed => response.max_recommended_loan % (1000 * 100) = 0

\* C15: the loan is the solved principal floored at 0 and rounded to the
\* nearest hundredth: it is within half a hundredth of max(0, solved).
C15_RoundedToHundredths ==
    Analyzed =>
        IF SolvedPrincipal.num <= 0 THEN response.max_recommended_loan = 0
        ELSE 2 * Abs(response.max_recommended_loan * SolvedPrincipal.den
                         - 100 * SolvedPrincipal.num) <= SolvedPrincipal.den

C15_Witness ==
    /\ ValidAssessment
    /\ response.max_recommended_loan > 0
    /\ response.max_recommended_loan % 100 # 0


\* C16: with the other inputs fixed, max_recommended_loan never decreases
\* when annual_income increases and never increases when
\* existing_loan_amount increases (over the incomes analyze_risk answers).
C16_MaxLoanMonotone ==
    Analyzed =>
        /\ \A inc \in AnnualIncomes :
               (inc >= request.annual_income /\ inc # 0)
                   => max_recommended_loan([request EXCEPT !.annual_income = inc])
                          >= response.max_recommended_loan
        /\ \A x \in {0, 12} :
               x >= request.existing_loan_amount
                   => max_recommended_loan([request EXCEPT !.existing_loan_amount = x])
                          <= response.max_recommended_loan


\* calculate_emi(max_recommended_loan, loan_tenure_months, 12) in hundredths
RoundTripEmi ==
    LET v == calculate_emi_of_hundredths(response.max_recommended_loan,
                                         request.loan_tenure_months, 12).value
    IN  (100 * v.num) \div v.den

\* 300 times the ceiling 0.4 * (annual_income / 12 - monthly_expenses), so
\* that 3 * hundredths compares with it
Ceiling300 == 10 * (request.annual_income - 12 * request.monthly_expenses)

\* C17 as stated: for a positive income and tenure the installment of the
\* returned loan does not exceed the solver's ceiling by more than the two
\* roundings (0.02).
C17_Original == ValidAssessment => 3 * RoundTripEmi <= Ceiling300 + 3 * 2

\* C17: the installment calculate_emi gives for the returned loan, at the
\* same tenure and 12%, does not exceed max(0, ceiling) by more than the two
\* roundings (0.02): under a negative ceiling loan and installment are 0.
C17_RoundTripWithinCeiling ==
    Analyzed =>
        3 * RoundTripEmi <= (IF Ceiling300 > 0 THEN Ceiling300 ELSE 0) + 3 * 2

C17_Witness ==
    /\ ValidAssessment
    /\ response.max_recommended_loan > 0
    /\ RoundTripEmi > 0
    /\ 3 * RoundTripEmi > Ceiling300


(***************************************************************************)
(* calculate_emi across rates and tenures.                                 *)
(***************************************************************************)
EmiReturned ==
    /\ Returned("calculate_emi")
    /\ request.principal > 0 /\ request.tenure_months > 0
    /\ request.annual_rate >= 0

RatLe(x, y) == x.num * y.den <= y.num * x.den

EmiAt(tenure_months, annual_rate) ==
    calculate_emi(request.principal, tenure_months, annual_rate).value

NonIncreasingInTenure ==
    \A n \in EmiTenures :
        n >= request.tenure_months
            => RatLe(EmiAt(n, request.annual_rate), response.value)

\* C18 as stated: for principal > 0, tenure > 0 and rate >= 0 the
\* installment never decreases when the rate rises, the step from rate 0
\* to a positive rate included, and never increases when the tenure rises.
C18_Original ==
    EmiReturned =>
        /\ \A r \in AnnualRates :
               r >= request.annual_rate
                   => RatLe(response.value, EmiAt(request.tenure_months, r))
        /\ NonIncreasingInTenure

\* C18: for principal > 0 and tenure > 0 the installment never decreases
\* when a positive rate rises and never increases when the tenure rises;
\* from rate 0 to a positive rate it may fall, by at most half a hundredth
\* (the rounding of the amortizing branch).
C18_MonotoneUpToRounding ==
    EmiReturned =>
        /\ \A r \in AnnualRates :
               (r >= request.annual_rate /\ request.annual_rate > 0)
                   => RatLe(response.value, EmiAt(request.tenure_months, r))
        /\ \A r \in AnnualRates :
               (r > 0 /\ request.annual_rate = 0)
                   => RatLe(Rat(200 * request.principal - request.tenure_months,
                                200 * request.tenure_months),
                            EmiAt(request.tenure_months, r))
        /\ NonIncreasingInTenure

C18_Witness ==
    /\ EmiReturned
    /\ request.annual_rate = 0
    /\ ~RatLe(response.value, EmiAt(request.tenure_months, 2))
    /\ RatLe(response.value, EmiAt(request.tenure_months, 12))
    /\ ~RatLe(response.value, EmiAt(request.tenure_months + 1, 0))

\* C19: for principal > 0 and tenure > 0, calculate_emi at rate 0 returns
\* principal / tenure_months exactly, not rounded to hundredths.
C19_ZeroRateIsStraightLine ==
    (EmiReturned /\ request.annual_rate = 0) =>
        /\ ~response.raised
        /\ response.value.num * request.tenure_months
               = request.principal * response.value.den

C19_Witness ==
    /\ EmiReturned /\ request.annual_rate = 0
    /\ ~response.raised
    /\ response.value.num * request.tenure_months
           = request.principal * response.value.den
    /\ (100 * response.value.num) % response.value.den # 0

(***************************************************************************)
(* Two assessments compared.                                               *)
(***************************************************************************)
AnalyzedTwice ==
    /\ Returned("analyze_risk_twice")
    /\ ~response.first.raised /\ ~response.second.raised

SameScoreCategoryAndFlag ==
    /\ response.first.risk_score = response.second.risk_score
    /\ response.first.risk_category = response.second.risk_category
    /\ request.first.has_expense_mismatch = request.second.has_expense_mismatch

\* C20: two assessments with the same score, category and mismatch flag
\* have the same decision, whatever their other inputs are.
C20_DecisionDependsOnScoreOnly ==
    (AnalyzedTwice /\ SameScoreCategoryAndFlag)
        => response.first.decision = response.second.decision

C20_Witness ==
    /\ AnalyzedTwice /\ SameScoreCategoryAndFlag
    /\ request.first.customer_score = 649 /\ request.second.customer_score = 749
    /\ request.first.age # request.second.age
    /\ request.first.annual_income # request.second.annual_income
    /\ request.first.loan_amount_requested # request.second.loan_amount_requested
    /\ response.first.decision = "MANUAL_REVIEW"
    /\ response.second.decision = "MANUAL_REVIEW"


(***************************************************************************)
(* The rules of calculate_risk_score, restated from the request alone.     *)
(***************************************************************************)
\* new EMI + existing_emi
TotalEmi ==
    RatAddInt(calculate_emi(request.amount, request.tenure_months, 12).value,
              request.existing_emi)

\* total EMI / income > a / 100, for income > 0
DtiAbove(a) == RatGt(Rat(TotalEmi.num, TotalEmi.den * request.income), a, 100)

\* expenses / income > a / 100, for income > 0
ExpensesAbove(a) == 100 * request.expenses > a * request.income

\* total EMI / (income - expenses) > a / 100, for income > expenses
DisposableShareAbove(a) ==
    RatGt(Rat(TotalEmi.num, TotalEmi.den * (request.income - request.expenses)),
          a, 100)

ScoredInFull == Scored /\ request.income > 0 /\ ~Unaffordable

HasReason(tag) == \E k \in DOMAIN response.reasons : response.reasons[k] = tag

ReasonPoints(tag) ==
    CASE tag = "DisposableVeryHigh" -> 40
      [] tag = "DisposableModerate" -> 25
      [] tag = "CriticalDTI" -> 50
      [] tag = "HighDTI" -> 30
      [] tag = "HighExpenseRatio" -> 20
      [] OTHER -> 0

RECURSIVE SumReasonPoints(_)
SumReasonPoints(reasons) ==
    IF reasons = <<>> THEN 0
    ELSE ReasonPoints(Head(reasons)) + SumReasonPoints(Tail(reasons))

\* C23: the DTI rule adds 50 when DTI > 0.60, 30 when 0.40 < DTI <= 0.60 and
\* nothing otherwise, never both: a scored result carries exactly one DTI
\* reason, the one of its tier, its score is the capped sum of the points of
\* its reasons, and every result with DTI > 0.40 has score >= 30.
C23_DtiRuleTiers ==
    /\ (Scored /\ request.income > 0 /\ DtiAbove(40))
           => response.score >= 30 * ScoreScale
    /\ ScoredInFull =>
           /\ Cardinality({k \in DOMAIN response.reasons :
                  response.reasons[k] \in {"CriticalDTI", "HighDTI", "HealthyDTI"}}) = 1
           /\ HasReason("CriticalDTI") <=> DtiAbove(60)
           /\ HasReason("HighDTI") <=> (DtiAbove(40) /\ ~DtiAbove(60))
           /\ response.score
                  = Min(100 * ScoreScale, SumReasonPoints(response.reasons) * ScoreScale)

C23_Witness ==
    /\ ScoredInFull
    /\ request.amount > 0 /\ request.tenure_months > 0 /\ request.expenses >= 0
    /\ DtiAbove(60)
    /\ HasReason("CriticalDTI") /\ ~HasReason("HighDTI")
    /\ response.score = (50 + 40) * ScoreScale


\* C24: whenever DTI > 0.5 and expenses > 80% of income, the result's
\* reasons include the risk-multiplier entry and its score is the
\* accumulated score times 1.5 (capped at 100).
C24_MultiplierApplied ==
    (Scored /\ request.income > 0 /\ DtiAbove(50) /\ ExpensesAbove(80)) =>
        /\ HasReason("RiskMultiplier")
        /\ response.score
               = Min(100 * ScoreScale,
                     (SumReasonPoints(response.reasons) * ScoreScale * 3) \div 2)


DtiPoints == IF DtiAbove(60) THEN 50 ELSE IF DtiAbove(40) THEN 30 ELSE 0

ExpensePoints == IF ExpensesAbove(70) THEN 20 ELSE 0

DisposablePoints ==
    IF request.income - request.expenses <= 0 THEN 0
    ELSE IF DisposableShareAbove(70) THEN 40
    ELSE IF DisposableShareAbove(50) THEN 25 ELSE 0

NoEngineRuleTriggered ==
    /\ request.income > 0
    /\ ~DtiAbove(40)
    /\ ~ExpensesAbove(70)
    /\ ~RatGt(TotalEmi, request.income - request.expenses, 2)

\* no rule of analyze_risk is triggered by the request
NoAnalysisRuleTriggered ==
    /\ request.age >= 25 /\ request.age <= 55
    /\ request.employment_years >= 3
    /\ request.customer_score >= 750
    /\ ~RatGt(InstallmentPercent, 40, 1)
    /\ ~RatGt(Rat(request.loan_amount_requested, request.annual_income), 2, 1)
    /\ ~request.has_expense_mismatch

\* C26: a request that triggers no rule gets the best outcome: score 0 and
\* APPROVED from calculate_risk_score; score 0, LOW and AUTO_APPROVE from
\* analyze_risk.
C26_CleanProfileBestOutcome ==
    /\ (Scored /\ NoEngineRuleTriggered)
           => (/\ ~response.raised
               /\ response.score = 0
               /\ response.status = "APPROVED")
    /\ (Analyzed /\ NoAnalysisRuleTriggered)
           => (/\ response.risk_score = 0
               /\ response.risk_category = "LOW"
               /\ response.decision = "AUTO_APPROVE")

C26_Witness ==
    /\ Scored /\ NoEngineRuleTriggered
    /\ request.amount > 0 /\ request.tenure_months > 0
    /\ 10 * request.expenses = 7 * request.income
    /\ response.score = 0 /\ response.status = "APPROVED"
    /\ response.reasons = <<"HealthyDTI">>


Served(endpoint) ==
    op = "api" /\ pc = "return" /\ request.endpoint = endpoint

\* the endpoints that depend on get_current_user, directly or through
\* verify_admin: GET /admin/loans, GET /admin/stats,
\* PATCH /admin/loans/{id}/status, POST /loans/apply, GET /loans/my-loans,
\* POST /agent/chat
ProtectedEndpoints ==
    {"get_all_loans", "get_dashboard_stats", "update_loan_status",
     "apply_for_loan", "get_my_loans", "chat_with_agent"}

ServedWithoutToken ==
    /\ op = "api" /\ pc = "return"
    /\ request.endpoint \in ProtectedEndpoints
    /\ request.token = NoToken

\* C21: a request without a bearer token to a protected endpoint is answered
\* 401 before the handler body runs and before Supabase is contacted,
\* whether or not the Supabase client is configured.
C21_NoTokenIs401 ==
    ServedWithoutToken =>
        /\ response.status_code = 401
        /\ ~response.handler_entered
        /\ ~response.db_accessed

\* a status update without a token refused while no client is configured
C21_Witness ==
    /\ ServedWithoutToken
    /\ request.endpoint = "update_loan_status"
    /\ ~env.supabase_client
    /\ response.status_code = 401

ZuduServed ==
    Served("get_loan_status_by_phone") \/ Served("get_payment_reminder")

\* C22: a Zudu endpoint returns account or loan data (found = True with the
\* user's name and loan fields) only for a request whose x-zudu-key header
\* equals the configured, non-empty ZUDU_SECRET_KEY.
C22_DataOnlyWithConfiguredKey ==
    (ZuduServed /\ response.body.found) =>
        /\ env.ZUDU_SECRET_KEY # ""
        /\ request.x_zudu_key = env.ZUDU_SECRET_KEY

\* the sum, in whole currency units, of the EMIs of the APPROVED loans of
\* user_id among the first n stored rows
RECURSIVE ApprovedEmiSum(_, _)
ApprovedEmiSum(user_id, n) ==
    IF n = 0 THEN 0
    ELSE ApprovedEmiSum(user_id, n - 1)
         + (IF loans[n].user_id = user_id /\ loans[n].status = "APPROVED"
            THEN loans[n].emi.num \div loans[n].emi.den ELSE 0)

\* C27: the status apply_for_loan stores, and the status and score it
\* returns, are those calculate_risk_score gives when existing_emi is the
\* sum of the EMIs of the applicant's already approved loans.
C27_ExistingEmisCounted ==
    (Served("apply_for_loan") /\ response.status_code = 200) =>
        LET n == Len(loans)
            application == request.application
            expected == calculate_risk_score(
                            application.amount, application.tenure_months,
                            application.monthly_income,
                            application.monthly_expenses,
                            ApprovedEmiSum(loans[n].user_id, n - 1))
        IN  /\ loans[n].status = expected.status
            /\ response.body.status = expected.status
            /\ response.body.risk_score = expected.score

StatusUpdateServed ==
    Served("update_loan_status") \/ Served("update_loan_status_legacy")

StoredStatusesValid == \A i \in DOMAIN loans : loans[i].status \in valid_statuses

\* a status update that passed the endpoint's dependency and found the
\* Supabase client, but names a status outside valid_statuses, gets 400
InvalidStatusGets400 ==
    (/\ StatusUpdateServed
     /\ request.update.status \notin valid_statuses
     /\ response.handler_entered
     /\ env.supabase_client) => response.status_code = 400

StatsAddUp ==
    (Served("get_dashboard_stats") /\ response.status_code = 200) =>
        response.body.pending_count + response.body.approved_count
            + response.body.rejected_count = response.body.total_loans

\* a served status update with an invalid status changes no stored loan
InvalidStatusChangesNothing ==
    (/\ StatusUpdateServed'
     /\ request'.update.status \notin valid_statuses) => loans' = loans

\* C29: after any sequence of apply_for_loan, update_loan_status and
\* update_loan_status_legacy calls every stored loan has a status in
\* {PENDING, APPROVED, REJECTED}; a status update naming any other status is
\* answered 400 once it reaches the status check and leaves the stored
\* loans unchanged; the pending, approved and rejected counts of the admin
\* statistics add up to total_loans.
C29_StatusesStayValid ==
    /\ [](StoredStatusesValid /\ InvalidStatusGets400 /\ StatsAddUp)
    /\ [][InvalidStatusChangesNothing]_vars

\* the legacy endpoint refused a status outside the set while two loans
\* are stored, one of them moved to PENDING by an earlier update
C29_Witness ==
    /\ Served("update_loan_status_legacy")
    /\ request.update.status = "CANCELLED"
    /\ response.status_code = 400
    /\ Len(loans) = MaxLoans
    /\ \E i \in DOMAIN loans : loans[i].status = "PENDING"

\* some loan that was already stored has another status after the step
StatusChanged ==
    \E i \in DOMAIN loans : loans'[i].status # loans[i].status

\* the caller of the request is authenticated and has the admin role
CallerIsAdmin == verify_admin(request.token).status_code = 200

\* C30: the status of a stored loan changes only in a step that serves a
\* request whose caller is authenticated and verified to have the admin
\* role.
C30_OnlyAdminsChangeStatus ==
    [][StatusChanged => CallerIsAdmin']_vars

====
